---- MODULE Spec2Model ----
(***************************************************************************)
(* Cart synchronisation of plastik.                                        *)
(*                                                                         *)
(* Spec      : the browser side.  CartProvider (cart context), the         *)
(*             useCartMerge hook and CartMergeHandler, talking through     *)
(*             /api/cart-proxy to the Remote Service.  One action is one   *)
(*             browser event (a status change, a user action, a response   *)
(*             landing) together with every React effect it triggers, run  *)
(*             to the point where no dependency changes any more.          *)
(* MergeSpec : the /api/cart-merge route (Local Store first, Remote        *)
(*             Service as fallback), one action per request.               *)
(* SessionSpec : CartProvider under a settled session status, where the    *)
(*             user performs several cart operations in a row and their    *)
(*             requests are answered in any order.                         *)
(***************************************************************************)
EXTENDS Integers, Sequences, FiniteSets, Bags, TLC

VARIABLES
    status,          \* useSession().status
    previousStatus,  \* CartMergeHandler's previousStatus
    cart,            \* CartProvider's cart.items
    isOpen,          \* CartProvider's cart.isOpen
    loading,         \* CartProvider's loading
    mergeState,      \* useCartMerge's mergeState
    lsCart,          \* localStorage 'cart'
    lsBackup,        \* localStorage 'plastik-cart-logout-backup'
    net,             \* bag of requests of the browser that are not yet settled
    remoteCart,      \* the owner's cart held by the Remote Service
    last,            \* history: the event that last wrote the cart (setCart)
    login,           \* history: what has happened since the last login
    trip,            \* history: progress of a logout/login round trip
    nOps,            \* number of user actions so far
    nStatus,         \* number of status changes so far
    dbCart,          \* Local Store: the owner has a cart row
    dbItems,         \* Local Store: the item rows of the owner's cart
    apiUrl,          \* NEXT_PUBLIC_API_URL / API_BASE_URL is configured
    srv              \* history: the last request handled by a server route

clientVars == <<status, previousStatus, cart, isOpen, loading, mergeState, lsCart,
                lsBackup, net, last, login, trip, nOps, nStatus>>
serverVars == <<dbCart, dbItems, apiUrl, srv>>
vars == <<clientVars, remoteCart, serverVars>>

----------------------------------------------------------------------------
(* Bounds of the model *)

MaxQty == 2
MaxUserOps == 1
MaxStatusChanges == 3
MaxObserve == 1
MaxInFlight == 3

----------------------------------------------------------------------------
(* Values *)

\* String(undefined): an absent id compares as this string
Undefined == "undefined"

\* The records the shop offers (type Record: id and discogsReleaseId)
Catalog == { [id |-> "1", rel |-> "1"], [id |-> "2", rel |-> "2"] }

Ids == { r.id : r \in Catalog }

\* Records as the type allows them: discogsReleaseId is optional
Records == Catalog \cup { [id |-> "3", rel |-> Undefined], [id |-> "4", rel |-> Undefined] }

RecordIds == { r.id : r \in Records }

\* A cart line: the record's fields plus quantity
Line(r, q) == [id |-> r.id, rel |-> r.rel, qty |-> q]

\* localStorage values: a missing key, a JSON cart, or text JSON.parse rejects
Absent == [state |-> "absent", items |-> <<>>]
Corrupt == [state |-> "corrupt", items |-> <<>>]
Stored(items) == [state |-> "items", items |-> items]

NoMerge == [isLoading |-> FALSE, isComplete |-> FALSE, error |-> "null"]
MergeLoading == [isLoading |-> TRUE, isComplete |-> FALSE, error |-> "null"]
MergeDone(err) == [isLoading |-> FALSE, isComplete |-> TRUE, error |-> err]

\* A request of the browser.  open: cart.isOpen as the fetchCart closure of
\* the render that issued the request holds it.  from/pre are history: what
\* issued a cart fetch, and the number of lines before the addToCart that led
\* to it.
Req(kind, id, qty, items, from, pre) ==
    [kind |-> kind, id |-> id, qty |-> qty, items |-> items, phase |-> "sent",
     resp |-> <<>>, open |-> isOpen, from |-> from, pre |-> pre]

GetReq(from, pre) == Req("get", "", 0, <<>>, from, pre)

\* a cart fetch made through a fetchCart closure that holds the given isOpen
GetReqWith(from, pre, open) == [GetReq(from, pre) EXCEPT !.open = open]

One(r) == SetToBag({r})

InFlight(kind) == { r \in BagToSet(net) : r.kind = kind }

\* number of requests of that kind not yet settled
Pending(kind) ==
    LET S == InFlight(kind)
        RECURSIVE Sum(_)
        Sum(T) == IF T = {} THEN 0
                  ELSE LET r == CHOOSE x \in T : TRUE
                       IN CopiesIn(r, net) + Sum(T \ {r})
    IN Sum(S)

\* history of the cart writes.  op: the writer; pre: the number of lines before
\* it.  For a fetch that landed, id names what issued it and qty is the number
\* of guest lines the two localStorage keys held when it removed them.  For a
\* logout, id tells whether the page was authenticated before.
NoEvent == [op |-> "init", id |-> "", qty |-> 0, pre |-> 0]
Event(op, id, qty, pre) == [op |-> op, id |-> id, qty |-> qty, pre |-> pre]

----------------------------------------------------------------------------
(* Pure helpers of the cart context *)

Map(s, F(_)) == [i \in 1..Len(s) |-> F(s[i])]

\* addToCart's test for "already in the cart"
sameLine(item, record) == item.id = record.id \/ item.rel = record.rel

\* removeFromCart's / updateQuantity's test for "this is the line stringId names"
matchesId(item, stringId) == item.id = stringId \/ item.rel = stringId

\* an updater whose new line starts with quantity 0
addItemsFromZero(items, record) ==
    IF \E i \in 1..Len(items) : sameLine(items[i], record)
    THEN Map(items, LAMBDA it : IF sameLine(it, record)
                                 THEN [it EXCEPT !.qty = it.qty + 1] ELSE it)
    ELSE Append(items, Line(record, 0))

addItems(items, record) ==
    IF \E i \in 1..Len(items) : sameLine(items[i], record)
    THEN Map(items, LAMBDA it : IF sameLine(it, record)
                                 THEN [it EXCEPT !.qty = it.qty + 1] ELSE it)
    ELSE Append(items, Line(record, 1))

removeItems(items, stringId) ==
    SelectSeq(items, LAMBDA it : ~matchesId(it, stringId))

setQuantity(items, stringId, quantity) ==
    Map(items, LAMBDA it : IF matchesId(it, stringId)
                            THEN [it EXCEPT !.qty = quantity] ELSE it)

\* a load that ignores what the key holds
loadGuestNothing(key) == <<>>

\* getFromStorage('cart') as the initial-load effect uses it
loadGuest(key) == IF key.state = "items" THEN key.items ELSE <<>>

\* the "Save Guest Cart to localStorage" effect
saveGuest(st, ld, items, key) ==
    IF st = "unauthenticated" /\ ~ld THEN Stored(items) ELSE key

----------------------------------------------------------------------------
(* The Remote Service, reached through /api/cart-proxy.  Its own logic is    *)
(* outside the repository: it is modelled by the contract the specification  *)
(* gives for it.                                                             *)

\* Merge Engine: an incoming line replaces the line with the same id, any
\* other incoming line is appended, lines not mentioned are kept.
RECURSIVE MergeEngine(_, _)
MergeEngine(authoritative, incoming) ==
    IF incoming = <<>> THEN authoritative
    ELSE LET x == Head(incoming)
             merged == IF \E i \in 1..Len(authoritative) : authoritative[i].id = x.id
                       THEN Map(authoritative,
                                LAMBDA it : IF it.id = x.id THEN x ELSE it)
                       ELSE Append(authoritative, x)
         IN MergeEngine(merged, Tail(incoming))

\* POST cart/items {recordId, quantity: 1}
remoteAdd(items, recordId) ==
    IF \E i \in 1..Len(items) : items[i].id = recordId
    THEN Map(items, LAMBDA it : IF it.id = recordId
                                 THEN [it EXCEPT !.qty = it.qty + 1] ELSE it)
    ELSE Append(items, Line(CHOOSE r \in Records : r.id = recordId, 1))

\* DELETE cart/items/<id>
remoteRemove(items, itemId) == SelectSeq(items, LAMBDA it : it.id # itemId)

\* PATCH cart/items/<id> {quantity}
remoteUpdate(items, itemId, quantity) ==
    Map(items, LAMBDA it : IF it.id = itemId THEN [it EXCEPT !.qty = quantity] ELSE it)

\* what the Remote Service holds after serving request r
remoteAfter(items, r) ==
    CASE r.kind = "add" -> remoteAdd(items, r.id)
      [] r.kind = "del" -> remoteRemove(items, r.id)
      [] r.kind = "patch" -> remoteUpdate(items, r.id, r.qty)
      [] r.kind \in {"merge", "logoutSave"} -> MergeEngine(items, r.items)
      [] OTHER -> items

----------------------------------------------------------------------------
(* /api/cart-proxy *)

\* the (method, target) pairs the proxy maps to an external endpoint; every
\* other pair is answered 400 without contacting the Remote Service
proxyRoutes(kind) == kind \in {"get", "add", "del", "patch", "merge", "logoutSave"}

----------------------------------------------------------------------------
(* useCartMerge *)

\* a guard that forgets the in-progress and completed flags
isNewLoginUnguarded(st, ms) == st = "authenticated"

isNewLogin(st, ms) == st = "authenticated" /\ ~ms.isComplete /\ ~ms.isLoading

\* the guest items mergeCart reads from the backup key
backupItems(backup) == IF backup.state = "items" THEN backup.items ELSE <<>>

\* an effect without the branch that resets the merge state on logout
mergeEffectStateNoReset(st, ms, backup) ==
    IF isNewLogin(st, ms)
    THEN CASE backup.state = "corrupt" -> MergeDone("read")
           [] backupItems(backup) # <<>> -> MergeLoading
           [] OTHER -> MergeDone("null")
    ELSE ms

\* mergeState once the effect (and what mergeCart does before its first
\* network call) has run
mergeEffectState(st, ms, backup) ==
    IF isNewLogin(st, ms)
    THEN CASE backup.state = "corrupt" -> MergeDone("read")
           [] backupItems(backup) # <<>> -> MergeLoading
           [] OTHER -> MergeDone("null")
    ELSE IF st = "unauthenticated" THEN NoMerge ELSE ms

\* an effect that sends a merge request even when it found no guest items
mergeEffectReqsAlwaysMerges(st, ms, backup) ==
    IF isNewLogin(st, ms)
    THEN IF backup.state # "corrupt"
         THEN One(Req("merge", "", 0, backupItems(backup), "merge", 0))
         ELSE One(GetReq("merge", 0))
    ELSE EmptyBag

\* an effect that gives up on a backup it cannot parse without fetching
mergeEffectReqsSkipsFetch(st, ms, backup) ==
    IF isNewLogin(st, ms)
    THEN IF backup.state = "corrupt" THEN EmptyBag
         ELSE IF backupItems(backup) # <<>>
         THEN One(Req("merge", "", 0, backupItems(backup), "merge", 0))
         ELSE One(GetReq("merge", 0))
    ELSE EmptyBag

\* the requests the effect issues
mergeEffectReqs(st, ms, backup) ==
    IF isNewLogin(st, ms)
    THEN IF backup.state # "corrupt" /\ backupItems(backup) # <<>>
         THEN One(Req("merge", "", 0, backupItems(backup), "merge", 0))
         ELSE One(GetReq("merge", 0))
    ELSE EmptyBag

\* mergeState after a setMergeState made while the page shows status st: the
\* effect runs again because isComplete/isLoading changed
settleMerge(st, ms) == IF st = "unauthenticated" THEN NoMerge ELSE ms

----------------------------------------------------------------------------
(* Initial state: a freshly loaded page.  localStorage and the Remote        *)
(* Service keep what earlier page lifetimes left there.                      *)

TwoLines == <<Line([id |-> "1", rel |-> "1"], 1), Line([id |-> "2", rel |-> "2"], 1)>>

ClientInit ==
    /\ status = "loading"
    /\ previousStatus = "loading"
    /\ cart = <<>>
    /\ isOpen = FALSE
    /\ loading = TRUE
    /\ mergeState = NoMerge
    /\ lsCart \in {Absent, Corrupt, Stored(TwoLines)}
    /\ lsBackup \in {Absent, Corrupt, Stored(TwoLines)}
    /\ net = EmptyBag
    /\ last = NoEvent
    /\ login = [merges |-> 0, found |-> FALSE, observed |-> 0]
    /\ trip = [stage |-> "none", items |-> <<>>]
    /\ nOps = 0
    /\ nStatus = 0

NoSrv == [op |-> "none", n |-> 0]

ServerIdle ==
    /\ dbCart = FALSE
    /\ dbItems = <<>>
    /\ apiUrl = TRUE
    /\ srv = NoSrv

Init ==
    /\ ClientInit
    /\ remoteCart \in {<<>>, TwoLines}
    /\ ServerIdle

----------------------------------------------------------------------------
(* Status changes *)

\* unknown -> authenticated, unauthenticated -> authenticated
Login ==
    /\ status \in {"loading", "unauthenticated"}
    /\ nStatus < MaxStatusChanges
    /\ BagCardinality(net) + 2 <= MaxInFlight
    /\ status' = "authenticated"
    /\ previousStatus' = "authenticated"
    /\ mergeState' = mergeEffectState("authenticated", mergeState, lsBackup)
    /\ net' = net (+) mergeEffectReqs("authenticated", mergeState, lsBackup)
                  (+) One(GetReq("page", 0))
    /\ loading' = TRUE
    /\ login' = [merges |-> BagCardinality(
                               mergeEffectReqs("authenticated", mergeState, lsBackup)
                               (-) One(GetReq("merge", 0))),
                 found |-> backupItems(lsBackup) # <<>>,
                 observed |-> 0]
    /\ trip' = IF /\ trip.stage = "out"
                  /\ net = EmptyBag
                  /\ remoteCart = <<>>
                  /\ lsBackup = Stored(trip.items)
               THEN [trip EXCEPT !.stage = "in"]
               ELSE [stage |-> "none", items |-> <<>>]
    /\ nStatus' = nStatus + 1
    /\ UNCHANGED <<cart, isOpen, lsCart, lsBackup, last, nOps, remoteCart, serverVars>>

\* a logout branch that keeps a backup it finds instead of overwriting it
LogoutKeepsPriorBackup ==
    /\ status \in {"loading", "authenticated"}
    /\ nStatus < MaxStatusChanges
    /\ BagCardinality(net) < MaxInFlight
    /\ LET wrote == previousStatus = "authenticated" /\ Len(cart) > 0
           key == IF wrote THEN Stored(cart) ELSE lsCart
       IN /\ lsBackup' = IF wrote /\ lsBackup.state # "items" THEN Stored(cart) ELSE lsBackup
          /\ cart' = loadGuest(key)
          /\ lsCart' = saveGuest("unauthenticated", FALSE, loadGuest(key), key)
          /\ net' = IF wrote
                    THEN net (+) One(Req("logoutSave", "", 0, cart, "logout", 0))
                    ELSE net
          /\ trip' = IF wrote /\ Len(cart) = 2
                     THEN [stage |-> "out", items |-> cart]
                     ELSE [stage |-> "none", items |-> <<>>]
    /\ status' = "unauthenticated"
    /\ previousStatus' = "unauthenticated"
    /\ mergeState' = mergeEffectState("unauthenticated", mergeState, lsBackup)
    /\ loading' = FALSE
    /\ last' = Event("logout", previousStatus, 0, Len(cart))
    /\ nStatus' = nStatus + 1
    /\ login' = [merges |-> 0, found |-> FALSE, observed |-> 0]
    /\ UNCHANGED <<isOpen, nOps, remoteCart, serverVars>>

\* unknown -> unauthenticated, authenticated -> unauthenticated
\* wrote: CartMergeHandler's logout branch found items to preserve
Logout ==
    /\ status \in {"loading", "authenticated"}
    /\ nStatus < MaxStatusChanges
    /\ BagCardinality(net) < MaxInFlight
    /\ LET wrote == previousStatus = "authenticated" /\ Len(cart) > 0
           key == IF wrote THEN Stored(cart) ELSE lsCart
       IN /\ lsBackup' = IF wrote THEN Stored(cart) ELSE lsBackup
          /\ cart' = loadGuest(key)
          /\ lsCart' = saveGuest("unauthenticated", FALSE, loadGuest(key), key)
          /\ net' = IF wrote
                    THEN net (+) One(Req("logoutSave", "", 0, cart, "logout", 0))
                    ELSE net
          /\ trip' = IF wrote /\ Len(cart) = 2
                     THEN [stage |-> "out", items |-> cart]
                     ELSE [stage |-> "none", items |-> <<>>]
    /\ status' = "unauthenticated"
    /\ previousStatus' = "unauthenticated"
    /\ mergeState' = mergeEffectState("unauthenticated", mergeState, lsBackup)
    /\ loading' = FALSE
    /\ last' = Event("logout", previousStatus, 0, Len(cart))
    /\ nStatus' = nStatus + 1
    /\ login' = [merges |-> 0, found |-> FALSE, observed |-> 0]
    /\ UNCHANGED <<isOpen, nOps, remoteCart, serverVars>>

\* the session object is replaced while the status stays 'authenticated':
\* the effects that depend on session run again
ObserveAuthenticated ==
    /\ status = "authenticated"
    /\ login.observed < MaxObserve
    /\ mergeState' = mergeEffectState(status, mergeState, lsBackup)
    /\ net' = net (+) mergeEffectReqs(status, mergeState, lsBackup)
    /\ loading' = IF mergeEffectReqs(status, mergeState, lsBackup) = One(GetReq("merge", 0))
                  THEN TRUE ELSE loading
    /\ login' = [login EXCEPT
                   !.observed = @ + 1,
                   !.merges = @ + BagCardinality(
                                    mergeEffectReqs(status, mergeState, lsBackup)
                                    (-) One(GetReq("merge", 0)))]
    /\ UNCHANGED <<status, previousStatus, cart, isOpen, lsCart, lsBackup, last, trip,
                   nOps, nStatus, remoteCart, serverVars>>

----------------------------------------------------------------------------
(* Cart actions of the context *)

\* a user action ends a round trip under observation
tripAfterOp == IF trip.stage = "in" THEN [stage |-> "none", items |-> <<>>] ELSE trip

\* payload.recordId = record.id || record.discogsReleaseId
recordKey(record) == IF record.id # Undefined THEN record.id ELSE record.rel

\* what an action of the context leaves alone
OpFrame ==
    /\ nOps < MaxUserOps
    /\ BagCardinality(net) < MaxInFlight
    /\ nOps' = nOps + 1
    /\ trip' = tripAfterOp
    /\ UNCHANGED <<status, previousStatus, isOpen, loading, mergeState, lsBackup, login,
                   nStatus, remoteCart, serverVars>>

\* an addToCart that posts the line whatever the session status
addToCartAlwaysPosts(record) ==
    /\ cart' = addItems(cart, record)
    /\ net' = net (+) One(Req("add", recordKey(record), 1, <<>>, "add", Len(cart)))
    /\ lsCart' = saveGuest(status, loading, addItems(cart, record), lsCart)

addToCart(record) ==
    /\ cart' = addItems(cart, record)
    /\ net' = IF status = "authenticated"
              THEN net (+) One(Req("add", recordKey(record), 1, <<>>, "add", Len(cart)))
              ELSE net
    /\ lsCart' = saveGuest(status, loading, addItems(cart, record), lsCart)

removeFromCart(id) ==
    /\ cart' = removeItems(cart, id)
    /\ net' = IF status = "authenticated"
              THEN net (+) One(Req("del", id, 0, <<>>, "del", 0))
              ELSE net
    /\ lsCart' = saveGuest(status, loading, removeItems(cart, id), lsCart)

\* a floor that lets quantity 0 through as an update
updateQuantityLowFloor(id, quantity) ==
    IF quantity < 0
    THEN removeFromCart(id)
    ELSE /\ cart' = setQuantity(cart, id, quantity)
         /\ net' = IF status = "authenticated"
                   THEN net (+) One(Req("patch", id, quantity, <<>>, "patch", 0))
                   ELSE net
         /\ lsCart' = saveGuest(status, loading, setQuantity(cart, id, quantity), lsCart)

updateQuantity(id, quantity) ==
    IF quantity <= 0
    THEN removeFromCart(id)
    ELSE /\ cart' = setQuantity(cart, id, quantity)
         /\ net' = IF status = "authenticated"
                   THEN net (+) One(Req("patch", id, quantity, <<>>, "patch", 0))
                   ELSE net
         /\ lsCart' = saveGuest(status, loading, setQuantity(cart, id, quantity), lsCart)

\* a clearCart that empties the cart only once the server has answered
clearCartAfterResponse ==
    /\ cart' = IF status = "authenticated" THEN cart ELSE <<>>
    /\ net' = IF status = "authenticated"
              THEN net (+) One(Req("clear", "", 0, cart, "clear", 0))
              ELSE net
    /\ lsCart' = saveGuest(status, loading, <<>>, lsCart)

clearCart ==
    /\ cart' = <<>>
    /\ net' = IF status = "authenticated"
              THEN net (+) One(Req("clear", "", 0, cart, "clear", 0))
              ELSE net
    /\ lsCart' = saveGuest(status, loading, <<>>, lsCart)

\* toggleCart and the effects that follow it: cart.isOpen is a dependency of
\* fetchCart, so fetchCart is a new function and the initial-load effect runs
\* again.  A signed-in page fetches its cart, a guest page reads the 'cart'
\* key again and stores what it read.  The useCartMerge effect runs again as
\* well and finds nothing to do.
toggleCart ==
    /\ isOpen' = ~isOpen
    /\ cart' = IF status = "unauthenticated" THEN loadGuest(lsCart) ELSE cart
    /\ loading' = (status # "unauthenticated")
    /\ lsCart' = saveGuest(status, FALSE, loadGuest(lsCart), lsCart)
    /\ net' = IF status = "authenticated"
              THEN net (+) One(GetReqWith("isOpen", 0, ~isOpen))
              ELSE net

AddToCart ==
    \E record \in Catalog :
        /\ \A i \in 1..Len(cart) : sameLine(cart[i], record) => cart[i].qty < MaxQty
        /\ addToCart(record)
        /\ last' = Event("addToCart", record.id, 1, Len(cart))
        /\ OpFrame

RemoveFromCart ==
    \E id \in Ids :
        /\ removeFromCart(id)
        /\ last' = Event("removeFromCart", id, 0, Len(cart))
        /\ OpFrame

UpdateQuantity ==
    \E id \in Ids, quantity \in -1..MaxQty :
        /\ updateQuantity(id, quantity)
        /\ last' = Event("updateQuantity", id, quantity, Len(cart))
        /\ OpFrame

ClearCart ==
    /\ clearCart
    /\ last' = Event("clearCart", "", 0, Len(cart))
    /\ OpFrame

----------------------------------------------------------------------------
(* The network.  A request that fails changes nothing at the server, so its  *)
(* failure is decided when it lands.  A request that succeeds is served (the *)
(* Remote Service acts and the answer is fixed) and lands later; where the   *)
(* page does nothing but log a success, serving settles the request.         *)

\* a failure of a tier ends a round trip under observation
tripAfterFailure == IF trip.stage = "in" THEN [stage |-> "none", items |-> <<>>] ELSE trip

\* the kinds whose success the page only logs
logsOnly(kind) == kind \in {"add", "del", "patch"}

\* the proxy forwards the request and the Remote Service serves it; the
\* answer to a fetch carries the owner's cart, and the answer to a pre-logout
\* save records what the service holds once the save is done
RemoteServes ==
    \E r \in BagToSet(net) :
        /\ r.phase = "sent"
        /\ proxyRoutes(r.kind)
        /\ net' = IF logsOnly(r.kind)
                  THEN net (-) One(r)
                  ELSE (net (-) One(r))
                       (+) One([r EXCEPT !.phase = "ok",
                                         !.resp = CASE r.kind = "get" -> remoteCart
                                                    [] r.kind = "logoutSave" ->
                                                           remoteAfter(remoteCart, r)
                                                    [] OTHER -> <<>>])
        /\ remoteCart' = remoteAfter(remoteCart, r)
        /\ UNCHANGED <<status, previousStatus, cart, isOpen, loading, mergeState, lsCart,
                       lsBackup, last, login, trip, nOps, nStatus, serverVars>>

\* the Remote Service lets the owner's cart expire (what the preventExpiry
\* flag of the write requests asks it not to do)
RemoteExpires ==
    /\ remoteCart # <<>>
    /\ remoteCart' = <<>>
    /\ trip' = tripAfterFailure
    /\ UNCHANGED <<status, previousStatus, cart, isOpen, loading, mergeState, lsCart,
                   lsBackup, net, last, login, nOps, nStatus, serverVars>>

\* what a landing response leaves alone, and what every landing but that of
\* a successful fetch leaves alone
FetchFrame == UNCHANGED <<status, previousStatus, login, nOps, nStatus, remoteCart,
                          serverVars>>

LandFrame == FetchFrame /\ UNCHANGED isOpen

\* fetchCart after its await, response.ok.  setCart writes the isOpen of the
\* closure; when that changes cart.isOpen, fetchCart is a new function and the
\* initial-load effect runs again (reload): a signed-in page fetches once
\* more, a guest page reads the 'cart' key, which was just removed.  The
\* useCartMerge effect runs again as well and finds nothing to do.
FetchLands ==
    \E r \in BagToSet(net) :
        /\ r.kind = "get"
        /\ r.phase = "ok"
        /\ LET reload == r.open # isOpen
               items == IF reload /\ status = "unauthenticated" THEN <<>> ELSE r.resp
           IN /\ net' = IF reload /\ status = "authenticated"
                        THEN (net (-) One(r)) (+) One(GetReqWith("isOpen", 0, r.open))
                        ELSE net (-) One(r)
              /\ loading' = (reload /\ status # "unauthenticated")
              /\ cart' = items
              /\ lsCart' = saveGuest(status, FALSE, items, Absent)
        /\ isOpen' = r.open
        /\ lsBackup' = Absent
        /\ last' = Event("fetched", r.from,
                         Len(backupItems(lsBackup)) + Len(loadGuest(lsCart)), r.pre)
        /\ UNCHANGED <<mergeState, trip>>
        /\ FetchFrame

\* fetchCart after its await: no session (401), the Remote Service unreachable
\* (502) or answering an error
FetchFails ==
    \E r \in BagToSet(net) :
        /\ r.kind = "get"
        /\ r.phase = "sent"
        /\ net' = net (-) One(r)
        /\ loading' = FALSE
        /\ cart' = <<>>
        /\ lsCart' = saveGuest(status, FALSE, <<>>, lsCart)
        /\ last' = Event("fetchFailed", r.from, 0, r.pre)
        /\ trip' = tripAfterFailure
        /\ UNCHANGED <<mergeState, lsBackup>>
        /\ LandFrame

\* addToCart, removeFromCart, updateQuantity after their await, failed
MutationFails ==
    \E r \in BagToSet(net) :
        /\ r.kind \in {"add", "del", "patch"}
        /\ r.phase = "sent"
        /\ net' = (net (-) One(r)) (+) One(GetReqWith(r.kind, r.pre, r.open))
        /\ loading' = TRUE
        /\ trip' = tripAfterFailure
        /\ UNCHANGED <<cart, lsCart, lsBackup, mergeState, last>>
        /\ LandFrame

\* clearCart after its await: the proxy knows no endpoint for DELETE cart and
\* answers 400, or the request fails before that
ClearFails ==
    \E r \in BagToSet(net) :
        /\ r.kind = "clear"
        /\ r.phase = "sent"
        /\ net' = net (-) One(r)
        /\ cart' = r.items
        /\ lsCart' = saveGuest(status, loading, r.items, lsCart)
        /\ last' = Event("clearFailed", "", 0, Len(cart))
        /\ trip' = tripAfterFailure
        /\ UNCHANGED <<loading, lsBackup, mergeState>>
        /\ LandFrame

\* mergeCart after its await, response.ok
MergeLands ==
    \E r \in BagToSet(net) :
        /\ r.kind = "merge"
        /\ r.phase = "ok"
        /\ net' = (net (-) One(r)) (+) One(GetReqWith("merge", 0, r.open))
        /\ loading' = TRUE
        /\ lsBackup' = Absent
        /\ lsCart' = Absent
        /\ mergeState' = settleMerge(status, MergeDone("null"))
        /\ UNCHANGED <<cart, last, trip>>
        /\ LandFrame

\* a catch branch that records the error and refreshes nothing
MergeFailsNoRefresh ==
    \E r \in BagToSet(net) :
        /\ r.kind = "merge"
        /\ r.phase = "sent"
        /\ net' = net (-) One(r)
        /\ mergeState' = settleMerge(status, MergeDone("merge"))
        /\ trip' = tripAfterFailure
        /\ UNCHANGED <<cart, loading, lsCart, lsBackup, last>>
        /\ LandFrame

\* mergeCart after its await, failed
MergeFails ==
    \E r \in BagToSet(net) :
        /\ r.kind = "merge"
        /\ r.phase = "sent"
        /\ net' = (net (-) One(r)) (+) One(GetReqWith("merge", 0, r.open))
        /\ loading' = TRUE
        /\ mergeState' = settleMerge(status, MergeDone("merge"))
        /\ trip' = tripAfterFailure
        /\ UNCHANGED <<cart, lsCart, lsBackup, last>>
        /\ LandFrame

\* the pre-logout save is answered with success: logged only
LogoutSaveLands ==
    \E r \in BagToSet(net) :
        /\ r.kind = "logoutSave"
        /\ r.phase = "ok"
        /\ net' = net (-) One(r)
        /\ UNCHANGED <<cart, loading, lsCart, lsBackup, mergeState, last, trip>>
        /\ LandFrame

\* a failure handler that takes the keys written at the logout back
LogoutSaveFailsDropsKeys ==
    \E r \in BagToSet(net) :
        /\ r.kind = "logoutSave"
        /\ r.phase = "sent"
        /\ net' = net (-) One(r)
        /\ lsBackup' = Absent
        /\ lsCart' = Absent
        /\ UNCHANGED <<cart, loading, mergeState, last, trip>>
        /\ LandFrame

\* the pre-logout save fails: logged only
LogoutSaveFails ==
    \E r \in BagToSet(net) :
        /\ r.kind = "logoutSave"
        /\ r.phase = "sent"
        /\ net' = net (-) One(r)
        /\ UNCHANGED <<cart, loading, lsCart, lsBackup, mergeState, last, trip>>
        /\ LandFrame

Next ==
    \/ Login
    \/ Logout
    \/ ObserveAuthenticated
    \/ AddToCart
    \/ RemoveFromCart
    \/ UpdateQuantity
    \/ ClearCart
    \/ RemoteServes
    \/ RemoteExpires
    \/ FetchLands
    \/ FetchFails
    \/ MutationFails
    \/ ClearFails
    \/ MergeLands
    \/ MergeFails
    \/ LogoutSaveLands
    \/ LogoutSaveFails

Spec == Init /\ [][Next]_vars

----------------------------------------------------------------------------
(* SessionSpec: a page whose session status has settled (a guest page, or a  *)
(* signed-in page once its first fetch has landed), on which the user acts   *)
(* several times in a row.  The status does not change any more.             *)

\* user actions followed in one behaviour
MaxSessionOps == 2

\* the carts the page may hold when the user starts to act
SessionCarts ==
    {<<>>, TwoLines} \cup { <<Line(r, q)>> : r \in Records, q \in {1, MaxQty} }

SessionInit ==
    /\ status \in {"unauthenticated", "authenticated"}
    /\ previousStatus = status
    /\ cart \in SessionCarts
    /\ isOpen = FALSE
    /\ loading = FALSE
    /\ mergeState = IF status = "authenticated" THEN MergeDone("null") ELSE NoMerge
    /\ lsCart = IF status = "unauthenticated" THEN Stored(cart) ELSE Absent
    /\ lsBackup = Absent
    /\ net = EmptyBag
    /\ remoteCart = IF status = "authenticated" THEN cart ELSE <<>>
    /\ last = NoEvent
    /\ login = [merges |-> 0, found |-> FALSE, observed |-> 0]
    /\ trip = [stage |-> "none", items |-> <<>>]
    /\ nOps = 0
    /\ nStatus = 1
    /\ ServerIdle

\* what an action of the context leaves alone
SessionFrame ==
    /\ nOps < MaxSessionOps
    /\ BagCardinality(net) < MaxInFlight
    /\ nOps' = nOps + 1
    /\ UNCHANGED <<status, previousStatus, isOpen, loading, mergeState, lsBackup, login,
                   trip, nStatus, remoteCart, serverVars>>

SessionAddToCart ==
    \E record \in Records :
        /\ \A i \in 1..Len(cart) : sameLine(cart[i], record) => cart[i].qty < MaxQty
        /\ addToCart(record)
        /\ last' = Event("addToCart", record.id, 1, Len(cart))
        /\ SessionFrame

SessionRemoveFromCart ==
    \E id \in RecordIds :
        /\ removeFromCart(id)
        /\ last' = Event("removeFromCart", id, 0, Len(cart))
        /\ SessionFrame

SessionUpdateQuantity ==
    \E id \in RecordIds, quantity \in -1..MaxQty :
        /\ updateQuantity(id, quantity)
        /\ last' = Event("updateQuantity", id, quantity, Len(cart))
        /\ SessionFrame

SessionClearCart ==
    /\ clearCart
    /\ last' = Event("clearCart", "", 0, Len(cart))
    /\ SessionFrame

SessionToggleCart ==
    /\ nOps < MaxSessionOps
    /\ BagCardinality(net) < MaxInFlight
    /\ toggleCart
    /\ last' = Event("toggleCart", "", 0, Len(cart))
    /\ nOps' = nOps + 1
    /\ UNCHANGED <<status, previousStatus, mergeState, lsBackup, login, trip, nStatus,
                   remoteCart, serverVars>>

SessionNext ==
    \/ SessionAddToCart
    \/ SessionRemoveFromCart
    \/ SessionUpdateQuantity
    \/ SessionClearCart
    \/ SessionToggleCart
    \/ RemoteServes
    \/ FetchLands
    \/ FetchFails
    \/ MutationFails
    \/ ClearFails

SessionSpec == SessionInit /\ [][SessionNext]_vars

----------------------------------------------------------------------------
(* /api/cart-merge, POST: login merge and pre-logout save *)

\* userId = session?.user?.id || (logoutSave ? bodyUserId : null)
postUserId(who, logoutSave) == who = "session" \/ (who = "body" /\ logoutSave)

\* the id the row is stored under: BigInt(item.id || item.discogsReleaseId)
dbKey(item) == IF item.id # Undefined THEN item.id ELSE item.rel

\* BigInt(...) does not throw
convertible(item) == dbKey(item) # Undefined

\* prisma.cartItem.create succeeds: the Local Store keeps one row per
\* (cart, itemId) pair
canCreate(rows, key) == \A i \in 1..Len(rows) : rows[i].id # key

\* a batch write that adds the incoming quantity to a row that exists
RECURSIVE saveItemsAdding(_, _, _, _)
saveItemsAdding(rows, items, failing, k) ==
    IF items = <<>> THEN [rows |-> rows, saved |-> 0]
    ELSE LET item == Head(items)
             written == convertible(item) /\ k \notin failing
             rows1 == IF ~written THEN rows
                      ELSE IF canCreate(rows, dbKey(item))
                      THEN Append(rows, [id |-> dbKey(item), qty |-> item.qty])
                      ELSE [i \in 1..Len(rows) |->
                              IF rows[i].id = dbKey(item)
                              THEN [rows[i] EXCEPT !.qty = @ + item.qty] ELSE rows[i]]
             rest == saveItemsAdding(rows1, Tail(items), failing, k + 1)
         IN [rows |-> rest.rows, saved |-> rest.saved + (IF written THEN 1 ELSE 0)]

\* a batch write whose create goes through when the row exists already
RECURSIVE saveItemsUnchecked(_, _, _, _)
saveItemsUnchecked(rows, items, failing, k) ==
    IF items = <<>> THEN [rows |-> rows, saved |-> 0]
    ELSE LET item == Head(items)
             created == convertible(item) /\ k \notin failing
             rest == saveItemsUnchecked(IF created
                                        THEN Append(rows, [id |-> dbKey(item),
                                                           qty |-> item.qty])
                                        ELSE rows,
                                        Tail(items), failing, k + 1)
         IN [rows |-> rest.rows, saved |-> rest.saved + (IF created THEN 1 ELSE 0)]

\* a batch write that gives up at the first item that fails
RECURSIVE saveItemsAborting(_, _, _, _)
saveItemsAborting(rows, items, failing, k) ==
    IF items = <<>> THEN [rows |-> rows, saved |-> 0]
    ELSE LET item == Head(items)
             created == /\ convertible(item)
                        /\ k \notin failing
                        /\ canCreate(rows, dbKey(item))
         IN IF ~created THEN [rows |-> rows, saved |-> 0]
            ELSE LET rest == saveItemsAborting(Append(rows, [id |-> dbKey(item),
                                                            qty |-> item.qty]),
                                               Tail(items), failing, k + 1)
                 IN [rows |-> rest.rows, saved |-> rest.saved + 1]

\* the batch write: each item is created on its own, a failure is caught per
\* item and leaves the others alone.  failing: the positions whose create
\* fails in the database; k: the position of the first item of items.
RECURSIVE saveItems(_, _, _, _)
saveItems(rows, items, failing, k) ==
    IF items = <<>> THEN [rows |-> rows, saved |-> 0]
    ELSE LET item == Head(items)
             created == /\ convertible(item)
                        /\ k \notin failing
                        /\ canCreate(rows, dbKey(item))
             rest == saveItems(IF created
                               THEN Append(rows, [id |-> dbKey(item), qty |-> item.qty])
                               ELSE rows,
                               Tail(items), failing, k + 1)
         IN [rows |-> rest.rows, saved |-> rest.saved + (IF created THEN 1 ELSE 0)]

\* a Local Store part that clears the rows before every write
localSaveReplacing(cartExists, rows, items, logoutSave, dbFailAt, failing) ==
    IF dbFailAt = "find" \/ (~cartExists /\ dbFailAt = "createCart")
    THEN [dbCart |-> cartExists, rows |-> rows, saved |-> 0]
    ELSE LET s == saveItems(<<>>, items, failing, 1)
         IN [dbCart |-> TRUE, rows |-> s.rows, saved |-> s.saved]

\* a Local Store part that never clears the rows
localSaveAppending(cartExists, rows, items, logoutSave, dbFailAt, failing) ==
    IF dbFailAt = "find" \/ (~cartExists /\ dbFailAt = "createCart")
    THEN [dbCart |-> cartExists, rows |-> rows, saved |-> 0]
    ELSE LET s == saveItems(rows, items, failing, 1)
         IN [dbCart |-> TRUE, rows |-> s.rows, saved |-> s.saved]

\* the Local Store part of the handler.  dbFailAt: the call that throws
\* ("find", "createCart", "deleteMany") or "none".
localSave(cartExists, rows, items, logoutSave, dbFailAt, failing) ==
    IF dbFailAt = "find" \/ (~cartExists /\ dbFailAt = "createCart")
    THEN [dbCart |-> cartExists, rows |-> rows, saved |-> 0]
    ELSE IF logoutSave /\ dbFailAt = "deleteMany"
    THEN [dbCart |-> TRUE, rows |-> rows, saved |-> 0]
    ELSE LET s == saveItems(IF logoutSave THEN <<>> ELSE rows, items, failing, 1)
         IN [dbCart |-> TRUE, rows |-> s.rows, saved |-> s.saved]

\* a Remote Service part that answers a 404 by calling the primary route again
remoteSaveRetryPrimary(url, primary, secondary) ==
    IF ~url
    THEN [status |-> 500, nPrimary |-> 0, nSecondary |-> 0, stored |-> FALSE,
          primary |-> "none", secondary |-> "none"]
    ELSE IF primary = "ok"
    THEN [status |-> 200, nPrimary |-> 1, nSecondary |-> 0, stored |-> TRUE,
          primary |-> primary, secondary |-> "none"]
    ELSE IF primary = "404"
    THEN [status |-> 404, nPrimary |-> 2, nSecondary |-> 0, stored |-> FALSE,
          primary |-> primary, secondary |-> "none"]
    ELSE [status |-> 500, nPrimary |-> 1, nSecondary |-> 0, stored |-> FALSE,
          primary |-> primary, secondary |-> "none"]

\* a Remote Service part that falls back on every answer that is not ok
remoteSaveAlwaysFallsBack(url, primary, secondary) ==
    IF ~url
    THEN [status |-> 500, nPrimary |-> 0, nSecondary |-> 0, stored |-> FALSE,
          primary |-> "none", secondary |-> "none"]
    ELSE IF primary = "ok"
    THEN [status |-> 200, nPrimary |-> 1, nSecondary |-> 0, stored |-> TRUE,
          primary |-> primary, secondary |-> "none"]
    ELSE [status |-> IF primary = "404" THEN 404 ELSE 500,
          nPrimary |-> 1, nSecondary |-> 1, stored |-> FALSE,
          primary |-> primary, secondary |-> "fail"]

\* the Remote Service part of the handler.  primary: what /api/cart/persist
\* answers ("ok", "404", "500", or "neterr" when fetch throws); secondary:
\* what /api/cart/merge answers ("ok", "fail", "neterr").
remoteSave(url, primary, secondary) ==
    IF ~url
    THEN [status |-> 500, nPrimary |-> 0, nSecondary |-> 0, stored |-> FALSE,
          primary |-> "none", secondary |-> "none"]
    ELSE IF primary = "ok"
    THEN [status |-> 200, nPrimary |-> 1, nSecondary |-> 0, stored |-> TRUE,
          primary |-> primary, secondary |-> "none"]
    ELSE IF primary = "404"
    THEN [status |-> IF secondary = "ok" THEN 200
                     ELSE IF secondary = "neterr" THEN 500 ELSE 404,
          nPrimary |-> 1, nSecondary |-> 1, stored |-> secondary = "ok",
          primary |-> primary, secondary |-> secondary]
    ELSE [status |-> 500, nPrimary |-> 1, nSecondary |-> 0, stored |-> FALSE,
          primary |-> primary, secondary |-> "none"]

\* the boolean fields of the body posted to /api/cart/persist
persistBody == {"force", "preferGuest", "saveForLater", "persist", "preventExpiry"}

\* the boolean fields of the body posted to /api/cart/merge
mergeBody == {"force", "preferGuest", "saveForLater"}

\* the write requests the handler sent to the Remote Service, given its result
remoteWrites(res) ==
    (IF res.nPrimary > 0 THEN {[endpoint |-> "persist", flags |-> persistBody]} ELSE {})
    \cup
    (IF res.nSecondary > 0 THEN {[endpoint |-> "merge", flags |-> mergeBody]} ELSE {})

\* an answer given before the Local Store or the Remote Service is touched.
\* db: the handler called the Local Store.
Rejected(code) ==
    [status |-> code, source |-> "none", saved |-> 0, nPrimary |-> 0, nSecondary |-> 0,
     primary |-> "none", secondary |-> "none", fault |-> FALSE, db |-> FALSE]

\* the whole handler: what it answers and what it leaves in the two stores
cartMergePost(cartExists, rows, remote, url, who, logoutSave, isArray, items, dbFailAt, failing, primary, secondary) ==
    IF ~postUserId(who, logoutSave)
    THEN [dbCart |-> cartExists, rows |-> rows, remote |-> remote, res |-> Rejected(401)]
    ELSE IF ~isArray
    THEN [dbCart |-> cartExists, rows |-> rows, remote |-> remote, res |-> Rejected(400)]
    ELSE IF items = <<>>
    THEN [dbCart |-> cartExists, rows |-> rows, remote |-> remote, res |-> Rejected(200)]
    ELSE LET l == localSave(cartExists, rows, items, logoutSave, dbFailAt, failing)
             r == remoteSave(url, primary, secondary)
             fault == \/ dbFailAt = "find"
                      \/ ~cartExists /\ dbFailAt = "createCart"
                      \/ logoutSave /\ dbFailAt = "deleteMany"
                      \/ failing \cap (1..Len(items)) # {}
         IN IF l.saved > 0
            THEN [dbCart |-> l.dbCart, rows |-> l.rows, remote |-> remote,
                  res |-> [status |-> 200, source |-> "database", saved |-> l.saved,
                           nPrimary |-> 0, nSecondary |-> 0,
                           primary |-> "none", secondary |-> "none", fault |-> fault,
                           db |-> TRUE]]
            ELSE [dbCart |-> l.dbCart, rows |-> l.rows,
                  remote |-> IF r.stored THEN MergeEngine(remote, items) ELSE remote,
                  res |-> [status |-> r.status, source |-> "api", saved |-> 0,
                           nPrimary |-> r.nPrimary, nSecondary |-> r.nSecondary,
                           primary |-> r.primary, secondary |-> r.secondary,
                           fault |-> fault, db |-> TRUE]]

----------------------------------------------------------------------------
(* /api/cart-merge, GET: the cart the owner is served *)

\* a Local Store row in the client-side format
rowAsLine(row) == [id |-> row.id, rel |-> row.id, qty |-> row.qty]

\* Local Store items when there are any, else the Remote Service's
fetchedCart(rows, remote, url) ==
    IF rows # <<>> THEN Map(rows, rowAsLine)
    ELSE IF url THEN remote ELSE <<>>

\* a handler that looks the cart up without asking whose it is
getUserIdUnchecked(who) == TRUE

\* userId = session?.user?.id || req.query.userId
getUserId(who) == who \in {"session", "query"}

\* a handler that answers from the Local Store alone
cartMergeGetLocalOnly(rows, remote, url, who, dbFault, answer) ==
    IF ~getUserId(who)
    THEN [status |-> 401, items |-> <<>>, source |-> "none", db |-> FALSE, nRemote |-> 0]
    ELSE IF ~dbFault /\ rows # <<>>
    THEN [status |-> 200, items |-> Map(rows, rowAsLine), source |-> "database",
          db |-> TRUE, nRemote |-> 0]
    ELSE [status |-> 200, items |-> <<>>, source |-> "none", db |-> TRUE, nRemote |-> 0]

\* the whole handler.  dbFault: prisma.cart.findUnique throws; answer: what
\* /api/cart/fetch answers ("ok", "error", or "neterr" when fetch throws).
\* nRemote: calls made to the Remote Service.
cartMergeGet(rows, remote, url, who, dbFault, answer) ==
    IF ~getUserId(who)
    THEN [status |-> 401, items |-> <<>>, source |-> "none", db |-> FALSE, nRemote |-> 0]
    ELSE IF ~dbFault /\ rows # <<>>
    THEN [status |-> 200, items |-> Map(rows, rowAsLine), source |-> "database",
          db |-> TRUE, nRemote |-> 0]
    ELSE IF ~url
    THEN [status |-> 200, items |-> <<>>, source |-> "none", db |-> TRUE, nRemote |-> 0]
    ELSE IF answer = "ok" /\ remote # <<>>
    THEN [status |-> 200, items |-> remote, source |-> "api", db |-> TRUE, nRemote |-> 1]
    ELSE [status |-> 200, items |-> <<>>, source |-> "none", db |-> TRUE, nRemote |-> 1]

----------------------------------------------------------------------------
(* /api/cart-proxy, the handler *)

\* The checks of the proxy in the order the handler makes them.  hasTarget:
\* the query names a target; kind: the (method, target) pair; session: the
\* request carries a session; answer: what the Remote Service answers ("ok",
\* "error", or "neterr" when fetch throws).  forwarded: the request reached
\* the Remote Service.
cartProxy(url, hasTarget, kind, session, answer) ==
    IF ~url THEN [status |-> 500, forwarded |-> FALSE]
    ELSE IF ~hasTarget THEN [status |-> 400, forwarded |-> FALSE]
    ELSE IF ~proxyRoutes(kind) THEN [status |-> 400, forwarded |-> FALSE]
    ELSE IF ~session THEN [status |-> 401, forwarded |-> FALSE]
    ELSE IF answer = "neterr" THEN [status |-> 502, forwarded |-> TRUE]
    ELSE [status |-> IF answer = "ok" THEN 200 ELSE 500, forwarded |-> TRUE]

----------------------------------------------------------------------------
(* MergeSpec: requests to /api/cart-merge and /api/cart-proxy, one at a time *)

\* the guest items a request may carry
GuestItems ==
    << Line([id |-> "1", rel |-> "1"], MaxQty),
       Line([id |-> "2", rel |-> "2"], 1),
       Line([id |-> Undefined, rel |-> "3"], 1),
       Line([id |-> Undefined, rel |-> Undefined], 1) >>

MaxBatch == 2

\* requests followed in one behaviour
MaxRequests == 2

\* guestCartItems: arrays of at most MaxBatch distinct guest items
RECURSIVE pick(_, _)
pick(I, k) ==
    IF k > Len(GuestItems) THEN <<>>
    ELSE (IF k \in I THEN <<GuestItems[k]>> ELSE <<>>) \o pick(I, k + 1)

Batches ==
    { pick(I, 1) : I \in { J \in SUBSET (1..Len(GuestItems)) : Cardinality(J) <= MaxBatch } }

ClientIdle ==
    /\ status = "loading"
    /\ previousStatus = "loading"
    /\ cart = <<>>
    /\ isOpen = FALSE
    /\ loading = TRUE
    /\ mergeState = NoMerge
    /\ lsCart = Absent
    /\ lsBackup = Absent
    /\ net = EmptyBag
    /\ last = NoEvent
    /\ login = [merges |-> 0, found |-> FALSE, observed |-> 0]
    /\ trip = [stage |-> "none", items |-> <<>>]
    /\ nOps = 0
    /\ nStatus = 0

MergeInit ==
    /\ ClientIdle
    /\ dbCart \in BOOLEAN
    /\ dbItems \in IF dbCart THEN {<<>>, <<[id |-> "1", qty |-> 1]>>} ELSE {<<>>}
    /\ remoteCart \in {<<>>, TwoLines}
    /\ apiUrl \in BOOLEAN
    /\ srv = NoSrv

\* the calls of the Local Store part that can throw for this request
DbFaults(cartExists, logoutSave) ==
    {"none", "find"} \cup (IF cartExists THEN {} ELSE {"createCart"})
                     \cup (IF logoutSave THEN {"deleteMany"} ELSE {})

\* One request, handled from start to end.  The choices the handler never
\* consults for the request at hand are not enumerated.
CartMergePost ==
    /\ srv.n < MaxRequests
    /\ \E who \in {"session", "body", "none"}, logoutSave \in BOOLEAN, isArray \in BOOLEAN :
       \E items \in IF isArray THEN Batches ELSE {<<>>} :
       LET accepted == postUserId(who, logoutSave) /\ isArray /\ items # <<>> IN
       \E dbFailAt \in IF accepted THEN DbFaults(dbCart, logoutSave) ELSE {"none"} :
       \E failing \in IF accepted /\ dbFailAt = "none"
                      THEN SUBSET (1..Len(items)) ELSE {{}} :
       LET local == localSave(dbCart, dbItems, items, logoutSave, dbFailAt, failing) IN
       \E primary \in IF accepted /\ local.saved = 0 /\ apiUrl
                      THEN {"ok", "404", "500", "neterr"} ELSE {"none"} :
       \E secondary \in IF primary = "404" THEN {"ok", "fail", "neterr"} ELSE {"none"} :
        LET out == cartMergePost(dbCart, dbItems, remoteCart, apiUrl, who, logoutSave,
                                 isArray, items, dbFailAt, failing, primary, secondary)
        IN /\ dbCart' = out.dbCart
           /\ dbItems' = out.rows
           /\ remoteCart' = out.remote
           /\ srv' = [op |-> "post", n |-> srv.n + 1,
                      who |-> who, logoutSave |-> logoutSave,
                      isArray |-> isArray, items |-> items,
                      dbFailAt |-> dbFailAt, failing |-> failing,
                      before |-> dbItems,
                      cartBefore |-> fetchedCart(dbItems, remoteCart, apiUrl),
                      res |-> out.res,
                      repeat |-> /\ srv.op = "post"
                                 /\ srv.items = items
                                 /\ isArray
                                 /\ ~srv.logoutSave /\ ~logoutSave
                                 /\ srv.res.status = 200 /\ ~srv.res.fault
                                 /\ out.res.status = 200]
           /\ UNCHANGED <<clientVars, apiUrl>>

\* the fields of srv a request other than a POST to /api/cart-merge leaves
\* empty
NotPost ==
    [logoutSave |-> FALSE, isArray |-> FALSE, items |-> <<>>,
     dbFailAt |-> "none", failing |-> {}, before |-> dbItems,
     cartBefore |-> fetchedCart(dbItems, remoteCart, apiUrl), repeat |-> FALSE]

\* One GET to /api/cart-merge.
CartMergeGet ==
    /\ srv.n < MaxRequests
    /\ \E who \in {"session", "query", "none"} :
       \E dbFault \in IF getUserId(who) THEN BOOLEAN ELSE {FALSE} :
       \E answer \in IF getUserId(who) /\ (dbFault \/ dbItems = <<>>) /\ apiUrl
                     THEN {"ok", "error", "neterr"} ELSE {"none"} :
        LET out == cartMergeGet(dbItems, remoteCart, apiUrl, who, dbFault, answer)
        IN srv' = NotPost @@ [op |-> "get", n |-> srv.n + 1, who |-> who,
                              dbFault |-> dbFault, answer |-> answer,
                              res |-> [status |-> out.status, db |-> out.db,
                                       nRemote |-> out.nRemote, items |-> out.items]]
    /\ UNCHANGED <<clientVars, dbCart, dbItems, remoteCart, apiUrl>>

\* the requests the page sends through the proxy
ProxyRequests ==
    { Req("get", "", 0, <<>>, "page", 0),
      Req("add", "1", 1, <<>>, "add", 0),
      Req("del", "1", 0, <<>>, "del", 0),
      Req("patch", "2", MaxQty, <<>>, "patch", 0),
      Req("merge", "", 0, TwoLines, "merge", 0),
      Req("clear", "", 0, <<>>, "clear", 0) }

\* One request to /api/cart-proxy.
CartProxy ==
    /\ srv.n < MaxRequests
    /\ \E r \in ProxyRequests, hasTarget \in BOOLEAN, session \in BOOLEAN :
       \E answer \in IF cartProxy(apiUrl, hasTarget, r.kind, session, "ok").forwarded
                     THEN {"ok", "error", "neterr"} ELSE {"none"} :
        LET out == cartProxy(apiUrl, hasTarget, r.kind, session, answer)
        IN /\ remoteCart' = IF out.forwarded /\ answer = "ok"
                            THEN remoteAfter(remoteCart, r) ELSE remoteCart
           /\ srv' = NotPost @@ [op |-> "proxy", n |-> srv.n + 1,
                                 who |-> IF session THEN "session" ELSE "none",
                                 res |-> [status |-> out.status, db |-> FALSE,
                                          nRemote |-> IF out.forwarded THEN 1 ELSE 0,
                                          items |-> IF out.forwarded /\ answer = "ok"
                                                       /\ r.kind = "get"
                                                    THEN remoteCart ELSE <<>>]]
    /\ UNCHANGED <<clientVars, dbCart, dbItems, apiUrl>>

MergeNext ==
    \/ CartMergePost
    \/ CartMergeGet
    \/ CartProxy

MergeSpec == MergeInit /\ [][MergeNext]_vars

----------------------------------------------------------------------------
(* Properties of the browser side (checked under Spec) *)

\* every request has landed and the login protocol has finished
Settled == net = EmptyBag /\ mergeState.isComplete

\* C1: logout/login round trip.  A session whose cart held two items logged
\* out (backup written) and logged in again against an empty authoritative
\* cart, no tier failed: once the login protocol has finished the cart holds
\* exactly those two items and neither the backup key nor the guest key is in
\* browser storage.
C1_RoundTripRestoresCart ==
    (trip.stage = "in" /\ status = "authenticated" /\ Settled)
        => (cart = trip.items /\ lsBackup = Absent /\ lsCart = Absent)

\* C2: no duplicate merge.  While the status stays 'authenticated', however
\* often it is observed again, no second merge request is issued for the
\* login, and the login that found guest items issues exactly one.
C2_NoDuplicateMerge ==
    status = "authenticated"
        => /\ login.merges <= 1
           /\ (login.found => login.merges = 1)

C2_Witness ==
    /\ status = "authenticated"
    /\ login.observed >= 1
    /\ login.found
    /\ login.merges = 1

\* C3: at most one login merge is in flight at any time.
C3_OneMergeInFlight == Pending("merge") <= 1

\* C4: optimistic rollback.  addToCart's request failed and so did the fetch
\* that re-synchronises the cart: the cart has as many lines as before
\* addToCart was called.
C4_AddRollsBack ==
    (last.op = "fetchFailed" /\ last.id = "add") => Len(cart) = last.pre

\* a step that is updateQuantity(id, quantity)
IsUpdateQuantity(id, quantity) ==
    /\ nOps' = nOps + 1
    /\ last' = Event("updateQuantity", id, quantity, Len(cart))

\* C5: quantity floor.  updateQuantity(id, q) with q <= 0 ends in the state
\* removeFromCart(id) ends in: the lines the id names are gone, every other
\* line is kept, the guest key is saved the same way, and the one request sent
\* is the DELETE of that id (none when not authenticated).
C5_QuantityFloor ==
    [][\A id \in Ids, quantity \in -1..0 :
          IsUpdateQuantity(id, quantity)
              => /\ removeFromCart(id)
                 /\ \A i \in 1..Len(cart') : ~matchesId(cart'[i], id)
                 /\ cart' = SelectSeq(cart, LAMBDA it : it.id # id /\ it.rel # id)
                 /\ net' = IF status = "authenticated"
                           THEN net (+) One(Req("del", id, 0, <<>>, "del", 0))
                           ELSE net
                 /\ remoteCart' = remoteCart]_vars

C5_Witness ==
    /\ last.op = "updateQuantity"
    /\ last.qty <= 0
    /\ last.pre > Len(cart)
    /\ status = "authenticated"
    /\ InFlight("del") # {}

----------------------------------------------------------------------------
(* Properties of /api/cart-merge (checked under MergeSpec) *)

\* the last request was a POST that passed the identity and array checks
\* and carried items
Accepted ==
    /\ srv.op = "post"
    /\ postUserId(srv.who, srv.logoutSave)
    /\ srv.isArray
    /\ srv.items # <<>>

\* the last request was a login merge (not a pre-logout save) answered 200
\* during which no database call failed for a reason of the database's own
CleanLoginMerge ==
    /\ Accepted
    /\ ~srv.logoutSave
    /\ srv.res.status = 200
    /\ ~srv.res.fault

ServedCart == fetchedCart(dbItems, remoteCart, apiUrl)

\* C6: after a login merge, an incoming item whose id the owner's cart held
\* already appears in the served cart on exactly one line, and that line
\* carries the incoming quantity.
C6_IncomingQuantityWins ==
    CleanLoginMerge =>
        \A i \in 1..Len(srv.items) :
            LET item == srv.items[i]
                lines == { j \in 1..Len(ServedCart) : ServedCart[j].id = dbKey(item) }
            IN (/\ convertible(item)
                /\ \E j \in 1..Len(srv.cartBefore) : srv.cartBefore[j].id = dbKey(item))
                   => /\ Cardinality(lines) = 1
                      /\ \A j \in lines : ServedCart[j].qty = item.qty

\* C7: a login merge of the same items directly after a login merge of them
\* that was answered 200 leaves the served cart as the first merge left it.
C7_MergeIdempotent ==
    (srv.op = "post" /\ srv.repeat) => ServedCart = srv.cartBefore

C7_Witness ==
    /\ srv.op = "post" /\ srv.repeat
    /\ Len(srv.items) = MaxBatch
    /\ srv.before # <<>>
    /\ \E i \in 1..Len(srv.items), j \in 1..Len(srv.before) :
          dbKey(srv.items[i]) = srv.before[j].id

C9_PrimaryOnceEveryPost ==
    (srv.op = "post" /\ srv.isArray /\ srv.items # <<>> /\ srv.res.saved = 0)
        => srv.res.nPrimary = 1 /\ srv.res.nSecondary <= 1

\* C9: whenever the Local Store saved no item of a POST that carried a
\* non-empty item array and an owner identity, and the Remote Service URL is
\* configured, the request reached the primary route exactly once and made
\* at most one further call, to the secondary route.
C9_PrimaryOnce ==
    (Accepted /\ apiUrl /\ srv.res.saved = 0)
        => srv.res.nPrimary = 1 /\ srv.res.nSecondary <= 1

C9_Witness ==
    /\ Accepted /\ apiUrl /\ srv.res.saved = 0
    /\ srv.res.fault
    /\ srv.res.nPrimary = 1
    /\ srv.res.nSecondary = 1

\* C10: the secondary route is called exactly when the primary route
\* answered 404, and then once; a primary failure of any other kind is
\* answered with an error without a call to the secondary route; and after
\* a 404 an error is answered only when the retry failed too.
C10_SecondaryIffPrimary404 ==
    srv.op = "post" =>
        /\ srv.res.nSecondary = (IF srv.res.primary = "404" THEN 1 ELSE 0)
        /\ srv.res.primary \in {"500", "neterr"} => srv.res.status >= 400
        /\ srv.res.primary = "404" =>
              (srv.res.status >= 400 <=> srv.res.secondary \in {"fail", "neterr"})

C10_Witness ==
    /\ srv.op = "post"
    /\ srv.res.primary = "404"
    /\ srv.res.nSecondary = 1
    /\ srv.res.secondary = "fail"
    /\ srv.res.status = 404

----------------------------------------------------------------------------
(* Properties of the browser side, continued (checked under Spec) *)

\* C11: a localStorage key that holds guest items is deleted only by the
\* success of a merge request that transmitted those items: a cart fetch that
\* lands removes no guest line, and a merge answer that is about to be
\* handled finds in the two keys only the items it transmitted.
C11_KeysOutliveMerge ==
    /\ last.op = "fetched" => last.qty = 0
    /\ \A r \in InFlight("merge") :
          r.phase = "ok" =>
              /\ lsBackup.state = "items" => lsBackup.items = r.items
              /\ lsCart.state = "items" => lsCart.items = r.items

\* C12: when the page is authenticated while the backup key is missing and
\* the 'cart' key holds guest items (nothing writes that key after login, so
\* it held them at login), the login has sent one merge request, and that
\* request transmits those items.
C12_GuestKeyFallback ==
    (status = "authenticated" /\ lsBackup.state = "absent" /\ loadGuest(lsCart) # <<>>)
        => /\ login.merges = 1
           /\ \A r \in InFlight("merge") : r.items = loadGuest(lsCart)

\* the step is a login
IsLogin == status # "authenticated" /\ status' = "authenticated"

\* C13: a login that finds the backup key missing issues no merge request,
\* leaves the merge state complete without error and issues a fetch of the
\* owner's cart; the Remote Service answers a fetch with the owner's cart,
\* and the answer that lands becomes the cart of the Cart State Store.
C13_NoGuestItemsNoMerge ==
    [][/\ (IsLogin /\ lsBackup.state = "absent")
            => /\ InFlight("merge")' \subseteq InFlight("merge")
               /\ Pending("merge")' = Pending("merge")
               /\ mergeState' = MergeDone("null")
               /\ CopiesIn(GetReq("merge", 0), net')
                     = CopiesIn(GetReq("merge", 0), net) + 1
       /\ \A r \in InFlight("get")' :
             (r.phase = "ok" /\ CopiesIn(r, net') > CopiesIn(r, net))
                 => r.resp = remoteCart
       /\ \A r \in InFlight("get") :
             (r.phase = "ok" /\ CopiesIn(r, net') < CopiesIn(r, net))
                 => cart' = r.resp]_vars

C13_Witness ==
    /\ status = "authenticated"
    /\ login.merges = 0
    /\ ~login.found
    /\ mergeState = MergeDone("null")
    /\ last.op = "fetched" /\ last.id = "merge" /\ last.qty = 0
    /\ cart = TwoLines

\* the step is the failure of a merge request: an unanswered merge request
\* leaves the network and no answer to it stays behind
IsMergeFailure ==
    /\ Pending("merge")' < Pending("merge")
    /\ \E r \in InFlight("merge") : r.phase = "sent" /\ CopiesIn(r, net') < CopiesIn(r, net)

\* C14: when a merge request fails while the page is authenticated, the
\* merge state records the error, a fetch of the cart is issued and the
\* failure itself leaves the cart as it was; the answer to a fetch that lands
\* becomes the cart of the Cart State Store; and while the merge state holds
\* the error the actions of the cart stay available.
C14_MergeFailureStillRefreshes ==
    [][/\ (IsMergeFailure /\ status = "authenticated")
            => /\ mergeState' = MergeDone("merge")
               /\ CopiesIn(GetReq("merge", 0), net')
                     = CopiesIn(GetReq("merge", 0), net) + 1
               /\ cart' = cart
       /\ \A r \in InFlight("get") :
             (r.from = "merge" /\ r.phase = "ok" /\ CopiesIn(r, net') < CopiesIn(r, net))
                 => cart' = r.resp
       /\ (mergeState.error = "merge" /\ nOps < MaxUserOps
                                      /\ BagCardinality(net) < MaxInFlight)
            => ENABLED RemoveFromCart /\ ENABLED UpdateQuantity /\ ENABLED ClearCart]_vars

C14_Witness ==
    /\ status = "authenticated"
    /\ mergeState = MergeDone("merge")
    /\ login.merges = 1
    /\ last.op = "fetched" /\ last.id = "merge"
    /\ cart = remoteCart
    /\ cart = TwoLines
    /\ net = EmptyBag

IsLogout == status = "authenticated" /\ status' = "unauthenticated"

LogoutSaveSettles ==
    \E r \in InFlight("logoutSave") : CopiesIn(r, net') < CopiesIn(r, net)

\* C16: the logout is complete in the step that observes it, with the
\* pre-logout save still unanswered: the previous status is updated and, if
\* there was a cart to keep, both keys hold it.  No outcome of the save
\* (served, answered with success, failed) changes the session status, the
\* cart, the merge state or either key.
C16_LogoutCompletes ==
    [][/\ status' = "unauthenticated" => previousStatus' = "unauthenticated"
       /\ (IsLogout /\ previousStatus = "authenticated" /\ cart # <<>>)
            => /\ lsBackup' = Stored(cart)
               /\ lsCart' = Stored(cart)
               /\ \E r \in InFlight("logoutSave")' : r.phase = "sent" /\ r.items = cart
       /\ LogoutSaveSettles
            => UNCHANGED <<status, previousStatus, cart, loading, mergeState,
                           lsCart, lsBackup>>]_vars

C16_Witness ==
    /\ status = "unauthenticated" /\ previousStatus = "unauthenticated"
    /\ last.op = "logout" /\ last.pre = 2
    /\ InFlight("logoutSave") = {}
    /\ remoteCart = <<>>
    /\ lsBackup = Stored(cart) /\ lsCart = Stored(cart)
    /\ Len(cart) = 2

\* the two carts hold the same lines
sameItems(a, b) == {a[i] : i \in 1..Len(a)} = {b[i] : i \in 1..Len(b)}

\* C17: once a pre-logout save has been answered with success, the Remote
\* Service holds for the owner exactly the lines the page held at the logout.
C17_LogoutSaveReplaces ==
    \A r \in InFlight("logoutSave") : r.phase = "ok" => sameItems(r.resp, r.items)

\* C18: once an authenticated page has handled the answer to the clear
\* request of clearCart, its cart holds no items.
C18_ClearEmptiesCart ==
    (status = "authenticated" /\ last.op = "clearFailed") => cart = <<>>

\* the step is one of addToCart, removeFromCart, updateQuantity, clearCart
IsCartOperation == nOps' = nOps + 1 /\ last'.op # "toggleCart"

\* C20: an operation of the context on an unauthenticated page puts no
\* request on the network and leaves the Remote Service, the Local Store and
\* the backup key alone; apart from the in-memory cart it writes only the
\* 'cart' key, which then holds the new cart (once the initial load is over).
C20_GuestOperationsStayLocal ==
    [][(IsCartOperation /\ status = "unauthenticated")
          => /\ net' = net
             /\ remoteCart' = remoteCart
             /\ lsBackup' = lsBackup
             /\ lsCart' = IF loading THEN lsCart ELSE Stored(cart')
             /\ UNCHANGED serverVars]_vars

C20_Witness ==
    /\ status = "unauthenticated"
    /\ last.op = "updateQuantity" /\ last.qty = 2
    /\ \E i \in 1..Len(cart) : cart[i].id = last.id /\ cart[i].qty = 2
    /\ lsCart = Stored(cart)
    /\ net = EmptyBag

----------------------------------------------------------------------------
(* Properties of the server routes, continued (checked under MergeSpec) *)

\* the last request carried no owner identity: no session and, for
\* /api/cart-merge, no user id in the query or the body
NoOwnerIdentity == srv.op \in {"post", "get", "proxy"} /\ srv.who = "none"

\* calls the last request made to the Remote Service
RemoteCalls ==
    IF srv.op = "post" THEN srv.res.nPrimary + srv.res.nSecondary ELSE srv.res.nRemote

\* C19: a request to /api/cart-merge (GET or POST) or to /api/cart-proxy
\* that carries no owner identity is answered with an error status, the
\* handler having called neither the Local Store nor the Remote Service, and
\* both are left as they were.
C19_NoIdentityRejectedFirst ==
    [][NoOwnerIdentity' => /\ srv'.res.status >= 400
                           /\ ~srv'.res.db
                           /\ RemoteCalls' = 0
                           /\ UNCHANGED <<dbCart, dbItems, remoteCart>>]_vars

C19_Witness ==
    /\ srv.op = "get" /\ srv.who = "none"
    /\ srv.res.status = 401
    /\ srv.n = MaxRequests
    /\ apiUrl
    /\ dbItems # <<>>
    /\ remoteCart # <<>>

----------------------------------------------------------------------------
(* Properties of a settled session (checked under SessionSpec) *)

\* C21: whatever the user does, and whatever comes back from the Remote
\* Service while they do it, every line of the cart has a quantity of at
\* least 1.
C21_QuantityAtLeastOne == \A i \in 1..Len(cart) : cart[i].qty >= 1

C21_Witness ==
    /\ nOps = MaxSessionOps
    /\ last.op = "updateQuantity" /\ last.qty <= 0
    /\ Len(cart) = last.pre - 1
    /\ cart # <<>>
    /\ \A i \in 1..Len(cart) : cart[i].id # last.id

\* the cart once the mutation that request r carries is applied to items
applied(items, r) ==
    CASE r.kind = "add" -> addItems(items, CHOOSE rec \in Records : rec.id = r.id)
      [] r.kind = "del" -> removeItems(items, r.id)
      [] r.kind = "patch" -> setQuantity(items, r.id, r.qty)
      [] OTHER -> <<>>

\* the requests of the four mutations that this step puts on the network
IssuedMutations ==
    { r \in BagToSet(net') : /\ r.kind \in {"add", "del", "patch", "clear"}
                             /\ CopiesIn(r, net') > CopiesIn(r, net) }

\* C22: on a signed-in page every operation of the context issues the
\* request of its mutation, and the step that issues the request is the step
\* that applies the mutation to the in-memory cart: the request is still
\* unanswered when the cart shows the change.
C22_OptimisticUpdate ==
    [][/\ (IsCartOperation /\ status = "authenticated") => IssuedMutations # {}
       /\ \A r \in IssuedMutations : /\ r.phase = "sent"
                                     /\ status = "authenticated"
                                     /\ cart' = applied(cart, r)]_vars

C22_Witness ==
    /\ status = "authenticated"
    /\ last.op = "updateQuantity"
    /\ \E r \in InFlight("patch") :
          /\ r.phase = "sent" /\ r.id = last.id /\ r.qty = MaxQty
          /\ \E i \in 1..Len(cart) : cart[i].id = r.id /\ cart[i].qty = MaxQty
          /\ \E i \in 1..Len(remoteCart) : remoteCart[i].id = r.id /\ remoteCart[i].qty = 1

----------------------------------------------------------------------------
(* Properties of the server routes, continued (checked under MergeSpec) *)

\* C23: after a login merge answered 200, every line the owner's cart held
\* before it whose id no incoming item carries is a line of the cart the
\* owner is served, unchanged.
C23_MergeNeverDeletes ==
    (Accepted /\ ~srv.logoutSave /\ srv.res.status = 200)
        => \A j \in 1..Len(srv.cartBefore) :
              (\A i \in 1..Len(srv.items) : dbKey(srv.items[i]) # srv.cartBefore[j].id)
                  => \E k \in 1..Len(ServedCart) : ServedCart[k] = srv.cartBefore[j]

----------------------------------------------------------------------------
(* Properties of a settled session, continued (checked under SessionSpec) *)

\* C24: once addToCart(record) has written the cart, the cart holds exactly
\* one line with the record's id, and at most one line more than before.
C24_AddIdentifiesById ==
    last.op = "addToCart"
        => /\ Cardinality({ i \in 1..Len(cart) : cart[i].id = last.id }) = 1
           /\ Len(cart) \in {last.pre, last.pre + 1}

----------------------------------------------------------------------------
(* Properties of the server routes, continued (checked under MergeSpec) *)

Savable(i) ==
    /\ convertible(srv.items[i])
    /\ i \notin srv.failing
    /\ srv.logoutSave \/ \A j \in 1..Len(srv.before) : srv.before[j].id # dbKey(srv.items[i])

\* C26: when the Local Store part of a POST ran to the batch write, every
\* item that could be saved on its own has its row whatever happened to the
\* others; if at least one item was saved the answer is 200 from the
\* database and no call went to the Remote Service; if none was saved the
\* request went on to the Remote Service part.
C26_BatchWrite ==
    Accepted =>
        /\ srv.dbFailAt = "none" =>
              /\ \A i \in 1..Len(srv.items) :
                    Savable(i) => \E j \in 1..Len(dbItems) :
                                     dbItems[j] = [id |-> dbKey(srv.items[i]),
                                                   qty |-> srv.items[i].qty]
              /\ srv.res.saved = Cardinality({ i \in 1..Len(srv.items) : Savable(i) })
        /\ srv.res.saved > 0 => /\ srv.res.status = 200
                                /\ srv.res.source = "database"
                                /\ srv.res.nPrimary = 0 /\ srv.res.nSecondary = 0
        /\ srv.res.saved = 0 => /\ srv.res.source = "api"
                                /\ apiUrl => srv.res.nPrimary = 1

C26_Witness ==
    /\ Accepted
    /\ Len(srv.items) = MaxBatch
    /\ srv.dbFailAt = "none"
    /\ srv.failing = {1}
    /\ srv.res.saved = 1
    /\ srv.res.status = 200 /\ srv.res.source = "database"
    /\ \E j \in 1..Len(dbItems) : dbItems[j].id = dbKey(srv.items[2])

----------------------------------------------------------------------------
(* Properties of the browser side, continued (checked under Spec) *)

\* C27: when the failure of a clear request was the last thing to write the
\* cart, a read of the server's cart issued by that failure is on its way.
C27_ClearFailureResyncs ==
    last.op = "clearFailed" => \E r \in InFlight("get") : r.from = "clear"

----------------------------------------------------------------------------
(* Properties of a settled session, continued (checked under SessionSpec) *)

\* C28: while the request of an addToCart that put the first line into an
\* empty cart is unanswered, the answer to an earlier request does not take
\* that line away: when the failure of a clear request was the last thing to
\* write the cart, the cart is still the one line the addToCart produced.
C28_EarlierAnswerKeepsLaterValue ==
    last.op = "clearFailed"
        => \A r \in InFlight("add") :
              (r.phase = "sent" /\ r.pre = 0)
                  => cart = <<Line(CHOOSE rec \in Records : rec.id = r.id, 1)>>

----------------------------------------------------------------------------
(* Properties of the browser side, continued (checked under Spec) *)

\* C29: a login that finds text under the backup key that does not parse
\* sends no merge request, leaves the merge state complete with the read
\* error recorded, and issues a fetch of the server's cart; the key is left
\* as it was.  The answer to that fetch becomes the cart.
C29_CorruptBackupSkipsMerge ==
    [][/\ (IsLogin /\ lsBackup.state = "corrupt")
            => /\ InFlight("merge")' \subseteq InFlight("merge")
               /\ Pending("merge")' = Pending("merge")
               /\ mergeState' = MergeDone("read")
               /\ CopiesIn(GetReq("merge", 0), net')
                     = CopiesIn(GetReq("merge", 0), net) + 1
               /\ lsBackup' = lsBackup
       /\ (status = "authenticated" /\ mergeState.error = "read")
            => \A r \in InFlight("get") :
                  (r.from = "merge" /\ r.phase = "ok"
                   /\ CopiesIn(r, net') < CopiesIn(r, net)) => cart' = r.resp]_vars

C29_Witness ==
    /\ status = "authenticated"
    /\ mergeState = MergeDone("read")
    /\ login.merges = 0
    /\ InFlight("merge") = {}
    /\ last.op = "fetched" /\ last.id = "merge"
    /\ cart = TwoLines

\* the step is the first status the page learns, and it is 'unauthenticated'
IsFirstGuestStatus == status = "loading" /\ status' = "unauthenticated"

\* C30: when the unknown status turns into 'unauthenticated', the cart
\* becomes the items stored under the 'cart' key, or no items when the key is
\* missing or unreadable; nothing is put on the network (no merge request,
\* no fetch), the initial load is over, and the backup key, the merge state
\* and the Remote Service are left alone.
C30_GuestLoadIsVerbatim ==
    [][IsFirstGuestStatus
          => /\ cart' = IF lsCart.state = "items" THEN lsCart.items ELSE <<>>
             /\ net = EmptyBag /\ net' = EmptyBag
             /\ loading' = FALSE
             /\ lsBackup' = lsBackup
             /\ mergeState' = NoMerge
             /\ remoteCart' = remoteCart]_vars

C30_Witness ==
    /\ status = "unauthenticated"
    /\ nStatus = 1
    /\ last.op = "logout" /\ last.id = "loading"
    /\ cart = TwoLines
    /\ lsCart = Stored(TwoLines)
    /\ lsBackup = Corrupt
    /\ net = EmptyBag

----------------------------------------------------------------------------
(* Second login of a page lifetime *)

\* number of requests in the bag that mergeCart issued (the merge request, or
\* the cart fetch it makes when there is nothing to merge)
ProtocolRequests(bag) ==
    LET S == { r \in BagToSet(bag) : r.from = "merge" }
        RECURSIVE Sum(_)
        Sum(T) == IF T = {} THEN 0
                  ELSE LET r == CHOOSE x \in T : TRUE
                       IN CopiesIn(r, bag) + Sum(T \ {r})
    IN Sum(S)

\* C31: every unauthenticated -> authenticated transition runs the login
\* protocol once.  The merge state was reset when 'unauthenticated' was
\* observed, so the login finds it reset, mergeCart starts (the merge state
\* leaves its reset value) and issues exactly one request of its own: the
\* merge request, or the cart fetch when there is nothing to merge.
C31_EveryLoginRunsProtocol ==
    [][(status = "unauthenticated" /\ status' = "authenticated")
          => /\ mergeState = NoMerge
             /\ mergeState' # NoMerge
             /\ ProtocolRequests(net') = ProtocolRequests(net) + 1]_vars

\* the second login of a page lifetime, made after the first login had
\* finished, has sent its merge request
C31_Witness ==
    /\ status = "authenticated"
    /\ nStatus = 3
    /\ trip.stage = "in"
    /\ login.merges = 1
    /\ mergeState = MergeLoading

----------------------------------------------------------------------------
(* Intent flags of the writes to the Remote Service *)

IntentFlags == {"force", "preferGuest", "persist", "preventExpiry"}

\* C32: every write request the cart-merge handler sends to the Remote
\* Service, to the primary endpoint and to the secondary endpoint alike,
\* carries the four intent flags force, preferGuest, persist and
\* preventExpiry.
C32_WritesCarryIntentFlags ==
    srv.op = "post" => \A w \in remoteWrites(srv.res) : IntentFlags \subseteq w.flags

----------------------------------------------------------------------------
(* Read cascade of the cart fetch *)

\* what the Local Store read of the last GET yielded
LocalYield == IF srv.dbFault THEN <<>> ELSE Map(dbItems, rowAsLine)

\* what a Remote Service read of the last GET yields
RemoteYield == IF apiUrl /\ srv.answer = "ok" THEN remoteCart ELSE <<>>

\* C33: read cascade.  A cart fetch for an owner answers with the Local
\* Store's items when the Local Store read yields any, and then does not read
\* the Remote Service; the Remote Service is read only when the Local Store
\* read failed or found no items, and the answer is then what that read
\* yields; the answer is empty exactly when neither tier yields items.
C33_ReadCascade ==
    (srv.op = "get" /\ srv.who # "none")
        => /\ LocalYield # <<>>
                => (srv.res.items = LocalYield /\ srv.res.nRemote = 0)
           /\ srv.res.nRemote > 0 => (srv.dbFault \/ dbItems = <<>>)
           /\ LocalYield = <<>> => srv.res.items = RemoteYield
           /\ srv.res.items = <<>> <=> (LocalYield = <<>> /\ RemoteYield = <<>>)

\* the Local Store read failed and the fetch was answered from the Remote
\* Service
C33_Witness ==
    /\ srv.op = "get"
    /\ srv.who = "session"
    /\ srv.dbFault
    /\ dbItems # <<>>
    /\ srv.res.nRemote = 1
    /\ srv.res.items = remoteCart
    /\ remoteCart # <<>>

----------------------------------------------------------------------------
(* A failing Remote Service read *)

\* C34: a read that reaches the Remote Service tells 'owner has no cart' from
\* 'unreachable'.  When the Remote Service cannot be reached or answers with
\* an error, the cart fetch is answered with an error, never with a
\* successful (empty) cart.
C34_RemoteFailureIsAnError ==
    (srv.op = "get" /\ srv.res.nRemote > 0 /\ srv.answer \in {"error", "neterr"})
        => srv.res.status # 200

----------------------------------------------------------------------------
(* The replace write of the Local Store *)

\* the rows a set of items is stored as
rowsOf(items) == { [id |-> dbKey(items[i]), qty |-> items[i].qty] : i \in 1..Len(items) }

\* the last request was a pre-logout save answered from the Local Store in
\* which every item was written
CleanLogoutSave ==
    /\ srv.op = "post"
    /\ srv.logoutSave
    /\ srv.res.status = 200
    /\ srv.res.source = "database"
    /\ srv.res.saved = Len(srv.items)

\* C35: the replace write deletes all of the owner's rows and then inserts
\* the given set.  After a successful pre-logout save in which no item failed,
\* the owner's Local Store rows are exactly the given items, one row each.
C35_ReplaceWrite ==
    CleanLogoutSave
        => /\ { dbItems[i] : i \in 1..Len(dbItems) } = rowsOf(srv.items)
           /\ Len(dbItems) = Len(srv.items)

\* a pre-logout save replaced a row that is not among the given items
C35_Witness ==
    /\ CleanLogoutSave
    /\ srv.before # <<>>
    /\ \A i \in 1..Len(srv.before) : \A j \in 1..Len(dbItems) :
           srv.before[i].id # dbItems[j].id

----------------------------------------------------------------------------
(* Responses that land after a logout *)

\* C36: while the session is unauthenticated, no server response overwrites
\* the cart or removes the guest cart from browser storage.  In particular a
\* cart fetch started while authenticated that lands after the logout has not
\* written the cart and removed guest items the two storage keys held.
C36_ResponsesSpareGuestCart ==
    status = "unauthenticated" => ~(last.op = "fetched" /\ last.qty > 0)

----------------------------------------------------------------------------
(* Opening and closing the cart (checked under SessionSpec) *)

\* C37: toggleCart changes only the isOpen flag.  Once a toggle has written
\* the cart state the cart has as many lines as before, and no request on the
\* network was issued because cart.isOpen changed.
C37_ToggleChangesOnlyIsOpen ==
    /\ last.op = "toggleCart" => Len(cart) = last.pre
    /\ \A r \in BagToSet(net) : r.from # "isOpen"

----------------------------------------------------------------------------
(* Persistence of the guest cart *)

\* the last write of the cart was a mutation made by the user
LastIsMutation ==
    last.op \in {"addToCart", "removeFromCart", "updateQuantity", "clearCart"}

\* C38: guest cart persistence.  On an unauthenticated page, once a mutation
\* has been made the guest key 'cart' holds the in-memory items, so a page
\* reload, which loads the items from that key, gives the items the page held
\* before it.
C38_GuestCartPersisted ==
    (status = "unauthenticated" /\ LastIsMutation) => loadGuest(lsCart) = cart

----------------------------------------------------------------------------
(* Whose cart a request to /api/cart-merge reaches *)

\* C39: a request without an authenticated session can neither read nor
\* modify an owner's cart.  A GET or POST to /api/cart-merge that carries no
\* session reaches neither the Local Store nor the Remote Service, whatever
\* user id its query or body supplies.
C39_OwnerComesFromSession ==
    (srv.op \in {"get", "post"} /\ srv.who # "session")
        => (~srv.res.db /\ RemoteCalls = 0)

============================================================================
